---- MODULE Spec2Model ----
(***************************************************************************)
(* A model of rename_files.py: the reference-table loader, the text        *)
(* normalizer, the keyword extractor, the project matcher, the filename    *)
(* transformer and the batch processor.                                    *)
(*                                                                         *)
(* A Python str is a sequence of Unicode code points (integers); a bytes   *)
(* value is a sequence of integers 0..255.                                 *)
(***************************************************************************)
EXTENDS Integers, Sequences, FiniteSets

(***************************************************************************)
(* Strings                                                                 *)
(***************************************************************************)

\* All strings of at most n characters drawn from the set of code points A.
Strings(A, n) == UNION {[1..k -> A] : k \in 0..n}

Min(S) == CHOOSE x \in S : \A y \in S : x <= y

\* s[i:j] with 1-based inclusive bounds; empty when i > j.
Slice(s, i, j) == [k \in 1..(j - i + 1) |-> s[i + k - 1]]

\* Python's `sub in s` for two str values.
Contains(sub, s) ==
    \E i \in 0..(Len(s) - Len(sub)) : Slice(s, i + 1, i + Len(sub)) = sub

\* str.isspace(), which is also the class \s of a str pattern.
Whitespace ==
    (9..13) \cup (28..32) \cup {133, 160, 5760} \cup (8192..8202)
        \cup {8232, 8233, 8239, 8287, 12288}

RECURSIVE lstrip(_)
lstrip(s) ==
    IF s # <<>> /\ Head(s) \in Whitespace THEN lstrip(Tail(s)) ELSE s

RECURSIVE rstrip(_)
rstrip(s) ==
    IF s # <<>> /\ s[Len(s)] \in Whitespace
    THEN rstrip(SubSeq(s, 1, Len(s) - 1))
    ELSE s

\* str.strip()
strip(s) == rstrip(lstrip(s))

\* The UTF-8 encoding of one code point.
utf8(c) ==
    IF c < 128 THEN <<c>>
    ELSE IF c < 2048 THEN <<192 + (c \div 64), 128 + (c % 64)>>
    ELSE IF c < 65536
         THEN <<224 + (c \div 4096), 128 + ((c \div 64) % 64), 128 + (c % 64)>>
    ELSE <<240 + (c \div 262144), 128 + ((c \div 4096) % 64),
           128 + ((c \div 64) % 64), 128 + (c % 64)>>

\* str.encode('utf-8')
RECURSIVE encode(_)
encode(s) ==
    IF s = <<>> THEN <<>>
    ELSE IF Len(s) = 1 THEN utf8(s[1])
    ELSE LET mid == Len(s) \div 2
         IN  encode(SubSeq(s, 1, mid)) \o encode(SubSeq(s, mid + 1, Len(s)))

(***************************************************************************)
(* unicodedata.normalize("NFKC", _) and str.lower().  The tables are those *)
(* of the Unicode character database for ASCII, the fullwidth forms        *)
(* U+FF01..U+FF5E, U+3000, U+00A0, U+FF65, the letters a/A/e/E with the    *)
(* combining marks U+0301 (class 230) and U+0323 (class 220), and their    *)
(* precomposed forms; every other code point the model uses (CJK           *)
(* ideographs, the brackets U+3010 and U+3011, U+30FB) is a starter with   *)
(* no decomposition and no case.  The marks are only ever put next to      *)
(* a, A, e, E, brackets and each other.                                    *)
(***************************************************************************)

\* Full compatibility decomposition of one code point.
Decomposition(c) ==
    IF c \in 65281..65374 THEN <<c - 65248>>
    ELSE CASE c = 12288 -> <<32>>
           [] c = 160   -> <<32>>
           [] c = 65381 -> <<12539>>
           [] c = 233   -> <<101, 769>>
           [] c = 201   -> <<69, 769>>
           [] c = 7865  -> <<101, 803>>
           [] c = 7864  -> <<69, 803>>
           [] c = 225   -> <<97, 769>>
           [] c = 193   -> <<65, 769>>
           [] c = 7841  -> <<97, 803>>
           [] c = 7840  -> <<65, 803>>
           [] OTHER     -> <<c>>

\* Canonical combining class.
CombiningClass(c) ==
    CASE c = 769 -> 230
      [] c = 803 -> 220
      [] OTHER   -> 0

\* Primary composite of a starter and a following character, 0 when none.
Composite(a, b) ==
    CASE a = 101 /\ b = 769 -> 233
      [] a = 69  /\ b = 769 -> 201
      [] a = 101 /\ b = 803 -> 7865
      [] a = 69  /\ b = 803 -> 7864
      [] a = 97  /\ b = 769 -> 225
      [] a = 65  /\ b = 769 -> 193
      [] a = 97  /\ b = 803 -> 7841
      [] a = 65  /\ b = 803 -> 7840
      [] OTHER              -> 0

RECURSIVE Decompose(_)
Decompose(s) ==
    IF s = <<>> THEN <<>> ELSE Decomposition(Head(s)) \o Decompose(Tail(s))

\* Canonical ordering: adjacent marks out of class order are exchanged.
RECURSIVE CanonicalOrder(_)
CanonicalOrder(s) ==
    LET bad == {i \in 1..(Len(s) - 1) :
                   /\ CombiningClass(s[i + 1]) > 0
                   /\ CombiningClass(s[i]) > CombiningClass(s[i + 1])}
    IN  IF bad = {} THEN s
        ELSE LET i == Min(bad)
             IN  CanonicalOrder([s EXCEPT ![i] = s[i + 1], ![i + 1] = s[i]])

\* Canonical composition: each character is combined with the last starter
\* when a primary composite exists and no character blocks it.
RECURSIVE ComposeFrom(_, _, _, _, _)
ComposeFrom(s, i, out, starter, lastClass) ==
    IF i > Len(s) THEN out
    ELSE LET ch == s[i]
             cls == CombiningClass(ch)
             comp == IF starter > 0 THEN Composite(out[starter], ch) ELSE 0
         IN  IF comp # 0 /\ (lastClass < cls \/ lastClass = 0)
             THEN ComposeFrom(s, i + 1, [out EXCEPT ![starter] = comp],
                              starter, lastClass)
             ELSE ComposeFrom(s, i + 1, Append(out, ch),
                              IF cls = 0 THEN Len(out) + 1 ELSE starter, cls)

NFKC(s) == ComposeFrom(CanonicalOrder(Decompose(s)), 1, <<>>, 0, 0)

\* str.lower() of one code point.
LowerChar(c) ==
    IF c \in 65..90 \/ c \in 65313..65338 THEN c + 32
    ELSE CASE c = 201  -> 233
           [] c = 7864 -> 7865
           [] c = 193  -> 225
           [] c = 7840 -> 7841
           [] OTHER    -> c

lower(s) == [i \in 1..Len(s) |-> LowerChar(s[i])]

(***************************************************************************)
(* normalize_text and extract_keywords                                     *)
(***************************************************************************)

\* The class [【】\[\]（）\(\)] of the pattern in normalize_text.
Brackets == {12304, 12305, 91, 93, 65288, 65289, 40, 41}

\* re.sub(pattern, "", s) for a pattern that is one character class.
RECURSIVE Delete(_, _)
Delete(class, s) ==
    IF s = <<>> THEN <<>>
    ELSE IF Head(s) \in class THEN Delete(class, Tail(s))
    ELSE <<Head(s)>> \o Delete(class, Tail(s))

\* normalize_text as it would be if it also deleted whitespace.
normalize_text_no_spaces(t) == lower(Delete(Brackets \cup Whitespace, NFKC(t)))

normalize_text(t) == lower(Delete(Brackets, NFKC(t)))

\* The class [_\s\-・] of the pattern in extract_keywords.
Separators == {95, 45, 12539} \cup Whitespace

\* re.split(pattern, s) for a pattern that is one or more characters of one
\* class: the pieces between the runs, the empty ones included.
RECURSIVE SplitFrom(_, _, _, _)
SplitFrom(class, s, i, piece) ==
    IF i > Len(s) THEN <<piece>>
    ELSE IF s[i] \in class
         THEN IF i > 1 /\ s[i - 1] \in class
              THEN SplitFrom(class, s, i + 1, piece)
              ELSE <<piece>> \o SplitFrom(class, s, i + 1, <<>>)
    ELSE SplitFrom(class, s, i + 1, Append(piece, s[i]))

re_split(class, s) == SplitFrom(class, s, 1, <<>>)

Range(f) == {f[i] : i \in DOMAIN f}

extract_keywords(t) == Range(re_split(Separators, normalize_text(t))) \ {<<>>}

(***************************************************************************)
(* find_project_number.  A mapping (a dict, which keeps insertion order)   *)
(* is a sequence of <<project_name, project_number>> pairs with distinct   *)
(* names.                                                                  *)
(***************************************************************************)

\* The return value "不明" of find_project_number when nothing matches.
UNKNOWN == <<19981, 26126>>

\* for project_name, project_number in mapping.items():
\*     if Test(project_name): return project_number
\* The position of the entry returned, 0 when the loop ends without one.
ForReturn(mapping, Test(_)) ==
    LET hits == {i \in 1..Len(mapping) : Test(mapping[i][1])}
    IN  IF hits = {} THEN 0 ELSE Min(hits)

\* The six loops of find_project_number, in the order of the source.
exact_loop(pj_name, mapping) ==
    ForReturn(mapping, LAMBDA project_name : pj_name = project_name)

normalized_loop(pj_name, mapping) ==
    LET normalized_pj == normalize_text(pj_name)
    IN  ForReturn(mapping, LAMBDA project_name :
            normalized_pj = normalize_text(project_name))

forward_loop(pj_name, mapping) ==
    ForReturn(mapping, LAMBDA project_name : Contains(pj_name, project_name))

reverse_loop(pj_name, mapping) ==
    ForReturn(mapping, LAMBDA project_name : Contains(project_name, pj_name))

partial_loop(pj_name, mapping) ==
    LET normalized_pj == normalize_text(pj_name)
    IN  ForReturn(mapping, LAMBDA project_name :
            LET normalized_csv == normalize_text(project_name)
            IN  \/ Contains(normalized_pj, normalized_csv)
                \/ Contains(normalized_csv, normalized_pj))

keyword_loop(pj_name, mapping) ==
    LET pj_keywords == extract_keywords(pj_name)
    IN  IF pj_keywords # {}
        THEN ForReturn(mapping, LAMBDA project_name :
                 pj_keywords \subseteq extract_keywords(project_name))
        ELSE 0

\* The first of the given loop results that returned, as its number.
FirstReturn(loops, mapping) ==
    LET hit == {k \in 1..Len(loops) : loops[k] # 0}
    IN  IF hit = {} THEN UNKNOWN ELSE mapping[loops[Min(hit)]][2]

\* A matcher that tries the keyword loop before the substring loops.
find_project_number_keyword_early(pj_name, mapping) ==
    FirstReturn(<<exact_loop(pj_name, mapping), normalized_loop(pj_name, mapping),
                  keyword_loop(pj_name, mapping), forward_loop(pj_name, mapping),
                  reverse_loop(pj_name, mapping), partial_loop(pj_name, mapping)>>,
                mapping)

\* find_project_number as it would be if it gave up on an empty fragment.
find_project_number_empty_unknown(pj_name, mapping) ==
    IF pj_name = <<>>
    THEN UNKNOWN
    ELSE FirstReturn(<<exact_loop(pj_name, mapping),
                       normalized_loop(pj_name, mapping),
                       forward_loop(pj_name, mapping),
                       reverse_loop(pj_name, mapping),
                       partial_loop(pj_name, mapping),
                       keyword_loop(pj_name, mapping)>>,
                     mapping)

find_project_number(pj_name, mapping) ==
    FirstReturn(<<exact_loop(pj_name, mapping), normalized_loop(pj_name, mapping),
                  forward_loop(pj_name, mapping), reverse_loop(pj_name, mapping),
                  partial_loop(pj_name, mapping), keyword_loop(pj_name, mapping)>>,
                mapping)

(***************************************************************************)
(* extract_pj_name                                                         *)
(***************************************************************************)

\* str.split(sep) for a one-character separator.
RECURSIVE str_split(_, _)
str_split(s, sep) ==
    LET at == {i \in 1..Len(s) : s[i] = sep}
    IN  IF at = {} THEN <<s>>
        ELSE <<SubSeq(s, 1, Min(at) - 1)>>
                 \o str_split(SubSeq(s, Min(at) + 1, Len(s)), sep)


extract_pj_name(filename) ==
    LET parts == str_split(filename, 95)
    IN  IF parts # <<>> THEN parts[1] ELSE filename

(***************************************************************************)
(* hashlib.md5: RFC 1321 on 32-bit words kept as <<high, low>> halves of   *)
(* 16 bits.                                                                *)
(***************************************************************************)

Add32(x, y) ==
    LET lo == x[2] + y[2]
    IN  <<(x[1] + y[1] + (lo \div 65536)) % 65536, lo % 65536>>

Pow2(n) == CASE n = 0 -> 1 [] n = 1 -> 2 [] n = 2 -> 4 [] n = 3 -> 8
             [] n = 4 -> 16 [] n = 5 -> 32 [] n = 6 -> 64 [] n = 7 -> 128
             [] n = 8 -> 256 [] n = 9 -> 512 [] n = 10 -> 1024
             [] n = 11 -> 2048 [] n = 12 -> 4096 [] n = 13 -> 8192
             [] n = 14 -> 16384 [] n = 15 -> 32768 [] n = 16 -> 65536

\* Rotation to the left by s bits, 0 < s < 32.
Rotl32(x, s) ==
    LET w == IF s >= 16 THEN <<x[2], x[1]>> ELSE x
        r == s % 16
    IN  <<((w[1] * Pow2(r)) % 65536) + (w[2] \div Pow2(16 - r)),
          ((w[2] * Pow2(r)) % 65536) + (w[1] \div Pow2(16 - r))>>

\* One bit of the round function of round i: F, G, H, I of RFC 1321.
MixBit(i, b, c, d) ==
    CASE i < 16 -> IF b = 1 THEN c ELSE d
      [] i \in 16..31 -> IF d = 1 THEN b ELSE c
      [] i \in 32..47 -> (b + c + d) % 2
      [] OTHER -> (c + (IF b = 1 \/ d = 0 THEN 1 ELSE 0)) % 2

\* The round function on three digits of 4 bits.
MixDigit(i, b, c, d) ==
    MixBit(i, b % 2, c % 2, d % 2)
        + 2 * MixBit(i, (b \div 2) % 2, (c \div 2) % 2, (d \div 2) % 2)
        + 4 * MixBit(i, (b \div 4) % 2, (c \div 4) % 2, (d \div 4) % 2)
        + 8 * MixBit(i, b \div 8, c \div 8, d \div 8)

\* MixDigit tabulated, by the first round of each of the four groups.
MixTable ==
    [g \in 0..3 |-> [b \in 0..15 |-> [c \in 0..15 |-> [d \in 0..15 |->
        MixDigit(16 * g, b, c, d)]]]]

\* The round function on three halves of 16 bits.
Mix16(i, b, c, d) ==
    LET t == MixTable[i \div 16]
    IN  t[b % 16][c % 16][d % 16]
            + 16 * t[(b \div 16) % 16][(c \div 16) % 16][(d \div 16) % 16]
            + 256 * t[(b \div 256) % 16][(c \div 256) % 16][(d \div 256) % 16]
            + 4096 * t[b \div 4096][c \div 4096][d \div 4096]

Mix32(i, b, c, d) ==
    <<Mix16(i, b[1], c[1], d[1]), Mix16(i, b[2], c[2], d[2])>>

MD5_K ==
    <<
        <<55146, 42104>>, <<59591, 46934>>, <<9248, 28891>>, <<49597, 52974>>,
        <<62844, 4015>>, <<18311, 50730>>, <<43056, 17939>>, <<64838, 38145>>,
        <<27008, 39128>>, <<35652, 63407>>, <<65535, 23473>>, <<35164, 55230>>,
        <<27536, 4386>>, <<64920, 29075>>, <<42617, 17294>>, <<18868, 2081>>,
        <<63006, 9570>>, <<49216, 45888>>, <<9822, 23121>>, <<59830, 51114>>,
        <<54831, 4189>>, <<580, 5203>>, <<55457, 59009>>, <<59347, 64456>>,
        <<8673, 52710>>, <<49975, 2006>>, <<62677, 3463>>, <<17754, 5357>>,
        <<43491, 59653>>, <<64751, 41976>>, <<26479, 729>>, <<36138, 19594>>,
        <<65530, 14658>>, <<34673, 63105>>, <<28061, 24866>>, <<64997, 14348>>,
        <<42174, 59972>>, <<19422, 53161>>, <<63163, 19296>>, <<48831, 48240>>,
        <<10395, 32454>>, <<60065, 10234>>, <<54511, 12421>>, <<1160, 7429>>,
        <<55764, 53305>>, <<59099, 39397>>, <<8098, 31992>>, <<50348, 22117>>,
        <<62505, 8772>>, <<17194, 65431>>, <<43924, 9127>>, <<64659, 41017>>,
        <<25947, 22979>>, <<36620, 52370>>, <<65519, 62589>>, <<34180, 24017>>,
        <<28584, 32335>>, <<65068, 59104>>, <<41729, 17172>>, <<19976, 4513>>,
        <<63315, 32386>>, <<48442, 62005>>, <<10967, 53947>>, <<60294, 54161>>
    >>

MD5_S ==
    <<7, 12, 17, 22, 7, 12, 17, 22, 7, 12, 17, 22, 7, 12, 17, 22,
      5, 9, 14, 20, 5, 9, 14, 20, 5, 9, 14, 20, 5, 9, 14, 20,
      4, 11, 16, 23, 4, 11, 16, 23, 4, 11, 16, 23, 4, 11, 16, 23,
      6, 10, 15, 21, 6, 10, 15, 21, 6, 10, 15, 21, 6, 10, 15, 21>>

MD5_Init == <<<<26437, 8961>>, <<61389, 43913>>, <<39098, 56574>>, <<4146, 21622>>>>

\* The message with its padding: 0x80, zeros up to 56 modulo 64, and the
\* length in bits as 8 little-endian bytes.
MD5_Pad(bytes) ==
    LET n == Len(bytes)
        zeros == (119 - (n % 64)) % 64
        bits == 8 * n
    IN  bytes \o <<128>> \o [k \in 1..zeros |-> 0]
              \o <<bits % 256, (bits \div 256) % 256, (bits \div 65536) % 256,
                   (bits \div 16777216) % 256, 0, 0, 0, 0>>

\* Word g (0..15) of the block that starts after byte `off` of the message.
MD5_Word(msg, off, g) ==
    LET p == off + 4 * g
    IN  <<msg[p + 4] * 256 + msg[p + 3], msg[p + 2] * 256 + msg[p + 1]>>

MD5_Index(i) ==
    CASE i < 16 -> i
      [] i \in 16..31 -> (5 * i + 1) % 16
      [] i \in 32..47 -> (3 * i + 5) % 16
      [] OTHER -> (7 * i) % 16

\* Round i (0..63) of one block on the working state st = <<A, B, C, D>>.
MD5_Round(st, msg, off, i) ==
    LET f == Mix32(i, st[2], st[3], st[4])
        sum == Add32(Add32(st[1], f),
                     Add32(MD5_K[i + 1], MD5_Word(msg, off, MD5_Index(i))))
    IN  <<st[4], Add32(st[2], Rotl32(sum, MD5_S[i + 1])), st[2], st[3]>>

\* Rounds lo..hi in order.  (The range is halved, and each half is bound by
\* a quantifier, so that the evaluation stays shallow.)
RECURSIVE MD5_Rounds(_, _, _, _, _)
MD5_Rounds(st, msg, off, lo, hi) ==
    IF lo = hi THEN MD5_Round(st, msg, off, lo)
    ELSE LET mid == (lo + hi) \div 2
         IN  CHOOSE r \in {MD5_Rounds(half, msg, off, mid + 1, hi) :
                               half \in {MD5_Rounds(st, msg, off, lo, mid)}} : TRUE

RECURSIVE MD5_Blocks(_, _, _)
MD5_Blocks(h, msg, off) ==
    IF off >= Len(msg) THEN h
    ELSE CHOOSE r \in {MD5_Blocks([k \in 1..4 |-> Add32(h[k], st[k])], msg, off + 64) :
                           st \in {MD5_Rounds(h, msg, off, 0, 63)}} : TRUE

HexDigit(n) == IF n < 10 THEN 48 + n ELSE 87 + n

HexByte(b) == <<HexDigit(b \div 16), HexDigit(b % 16)>>

\* The 8 hexadecimal digits of one word of the digest, low byte first.
HexWord(w) ==
    HexByte(w[2] % 256) \o HexByte(w[2] \div 256)
        \o HexByte(w[1] % 256) \o HexByte(w[1] \div 256)

\* hashlib.md5(bytes).hexdigest()
md5_hexdigest(bytes) ==
    LET h == MD5_Blocks(MD5_Init, MD5_Pad(bytes), 0)
    IN  HexWord(h[1]) \o HexWord(h[2]) \o HexWord(h[3]) \o HexWord(h[4])

(***************************************************************************)
(* truncate_filename                                                       *)
(***************************************************************************)

\* str.rfind(c) + 1: the last position of c in s, 0 when absent.
rfind(s, c) ==
    LET at == {i \in 1..Len(s) : s[i] = c}
    IN  IF at = {} THEN 0 ELSE CHOOSE i \in at : \A j \in at : j <= i

\* os.path.splitext (posixpath): the extension starts at the last dot of
\* the last path component, unless only dots precede it there.
splitext(p) ==
    LET sepIndex == rfind(p, 47)
        dotIndex == rfind(p, 46)
    IN  IF /\ dotIndex > sepIndex
           /\ \E k \in (sepIndex + 1)..(dotIndex - 1) : p[k] # 46
        THEN <<SubSeq(p, 1, dotIndex - 1), SubSeq(p, dotIndex, Len(p))>>
        ELSE <<p, <<>>>>

\* The early return as it would be with < in place of <=.
fits_strict(filename, max_length) == Len(encode(filename)) < max_length

\* len(filename.encode('utf-8')) <= max_length
fits(filename, max_length) == Len(encode(filename)) <= max_length

\* hashlib.md5(filename.encode('utf-8')).hexdigest()[:8]
hash_prefix(filename) == SubSeq(md5_hexdigest(encode(filename)), 1, 8)

\* available_length as it would be without the byte kept for "_".
budget_no_separator(max_length, ext, file_hash) ==
    max_length - Len(encode(ext)) - Len(file_hash)

\* max_length - len(ext.encode('utf-8')) - len(file_hash) - 1
budget(max_length, ext, file_hash) ==
    max_length - Len(encode(ext)) - Len(file_hash) - 1

\* The test of the while loop.
too_long(truncated_base, available) == Len(encode(truncated_base)) > available

\* truncated_base[:-1]
drop_last(s) == IF s = <<>> THEN <<>> ELSE SubSeq(s, 1, Len(s) - 1)

\* f"{truncated_base}_{file_hash}{ext}"
reassemble(truncated_base, hash, ext) == truncated_base \o <<95>> \o hash \o ext

RECURSIVE while_loop(_, _)
while_loop(truncated_base, available) ==
    IF too_long(truncated_base, available)
    THEN while_loop(drop_last(truncated_base), available)
    ELSE truncated_base

\* The value truncate_filename returns (the loop does not end when the
\* budget is negative: see the step-wise model below).
truncate_filename(filename, max_length) ==
    IF fits(filename, max_length) THEN filename
    ELSE LET base_ext == splitext(filename)
             file_hash == hash_prefix(filename)
             available_length == budget(max_length, base_ext[2], file_hash)
         IN  reassemble(while_loop(base_ext[1], available_length),
                        file_hash, base_ext[2])

\* f"【{project_number}】{filename}"
compose(project_number, filename) == <<12304>> \o project_number \o <<12305>> \o filename

(***************************************************************************)
(* The state                                                               *)
(***************************************************************************)

VARIABLES
    pc,               \* position of the program, or of the function under study
    input,            \* the argument of the first call of the function under study
    returned,         \* the values its calls have returned so far
    csv_rows,         \* the data rows of the reference table, in file order
    n_read,           \* how many of them load_project_mapping has read
    mapping,          \* the mapping: <<project_name, project_number>> pairs
    md_files,         \* the names of the enumerated input files
    n_done,           \* how many of them the loop has finished
    filename,         \* process_files / truncate_filename: filename
    pj_name,          \* process_files / find_project_number: pj_name
    project_number,   \* process_files: project_number
    new_filename,     \* process_files: new_filename
    matched,          \* process_files: the counters
    unmatched,
    truncated,
    copies,           \* the copies made: [src, dst], in order
    summary,          \* the counts printed at the end, <<>> before
    max_length,       \* truncate_filename: max_length
    ext,              \* truncate_filename: ext
    file_hash,        \* truncate_filename: file_hash
    available_length, \* truncate_filename: available_length
    truncated_base    \* truncate_filename: truncated_base

callVars == <<input, returned>>
tableVars == <<csv_rows, n_read, mapping>>
batchVars == <<md_files, n_done, matched, unmatched, truncated, copies, summary>>
localVars == <<filename, pj_name, project_number, new_filename>>
truncVars == <<max_length, ext, file_hash, available_length, truncated_base>>

vars == <<pc, callVars, tableVars, batchVars, localVars, truncVars>>

(***************************************************************************)
(* load_project_mapping                                                    *)
(***************************************************************************)

Names(m) == {m[i][1] : i \in 1..Len(m)}

\* The loop body as it would be without the test `name not in mapping`:
\* mapping[name] = number overwrites the number and keeps the name's place.
load_row_last_wins(m, row) ==
    IF Len(row) >= 3
    THEN LET number == strip(row[1])
             name == strip(row[3])
         IN  IF number # <<>> /\ name # <<>>
             THEN IF name \in Names(m)
                  THEN [i \in 1..Len(m) |->
                          IF m[i][1] = name THEN <<name, number>> ELSE m[i]]
                  ELSE Append(m, <<name, number>>)
             ELSE m
    ELSE m

\* The body of `for row in reader`: the mapping after one more row.
load_row(m, row) ==
    IF Len(row) >= 3
    THEN LET number == strip(row[1])
             name == strip(row[3])
         IN  IF number # <<>> /\ name # <<>> /\ name \notin Names(m)
             THEN Append(m, <<name, number>>)
             ELSE m
    ELSE m

(***************************************************************************)
(* Values the variables of a specification hold when it does not use them. *)
(***************************************************************************)

IdleCall == input = <<>> /\ returned = <<>>
IdleTable == csv_rows = <<>> /\ n_read = 0 /\ mapping = <<>>
IdleBatch ==
    /\ md_files = <<>> /\ n_done = 0
    /\ matched = 0 /\ unmatched = 0 /\ truncated = 0
    /\ copies = <<>> /\ summary = <<>>
IdleLocals ==
    filename = <<>> /\ pj_name = <<>> /\ project_number = <<>> /\ new_filename = <<>>
IdleTrunc ==
    /\ max_length = 0 /\ ext = <<>> /\ file_hash = <<>>
    /\ available_length = 0 /\ truncated_base = <<>>

(***************************************************************************)
(* SpecNorm: normalize_text applied to a text and then to its own result.  *)
(***************************************************************************)

MaxTextLen == 3

\* e, E, U+0301, U+0323, e-acute, "(", fullwidth "(", "【", fullwidth A
NormAlphabet == {101, 69, 769, 803, 233, 40, 65288, 12304, 65313}

InitNorm ==
    /\ pc = "normalize"
    /\ input \in Strings(NormAlphabet, MaxTextLen)
    /\ returned = <<>>
    /\ IdleTable /\ IdleBatch /\ IdleLocals /\ IdleTrunc

Normalize ==
    /\ pc = "normalize"
    /\ Len(returned) < 2
    /\ returned' = Append(returned,
                          normalize_text(IF returned = <<>> THEN input
                                         ELSE returned[Len(returned)]))
    /\ UNCHANGED <<pc, input, tableVars, batchVars, localVars, truncVars>>

NextNorm == Normalize

SpecNorm == InitNorm /\ [][NextNorm]_vars

\* C7: normalize_text is idempotent: normalizing a normalized text gives it
\* back unchanged.
C7_NormalizeIdempotent == Len(returned) = 2 => returned[2] = returned[1]

(***************************************************************************)
(* SpecFind: find_project_number on one fragment and one mapping.  The     *)
(* mappings are those load_project_mapping can build: distinct non-empty   *)
(* stripped names, non-empty stripped numbers.                             *)
(***************************************************************************)

MaxFragmentLen == 2
MaxEntries == 2

\* a, A, "-", "("
FindAlphabet == {97, 65, 45, 40}

\* "a", "A", "a-", "-a", "(("
FindNames == {<<97>>, <<65>>, <<97, 45>>, <<45, 97>>, <<40, 40>>}

\* "1", "2", "不明"
FindNumbers == {<<49>>, <<50>>, UNKNOWN}

Mappings(names, numbers, n) ==
    UNION {{m \in [1..k -> names \X numbers] :
               \A i, j \in 1..k : i # j => m[i][1] # m[j][1]} : k \in 0..n}

InitFind ==
    /\ pc = "find"
    /\ pj_name \in Strings(FindAlphabet, MaxFragmentLen)
    /\ mapping \in Mappings(FindNames, FindNumbers, MaxEntries)
    /\ csv_rows = <<>> /\ n_read = 0
    /\ filename = <<>> /\ project_number = <<>> /\ new_filename = <<>>
    /\ IdleCall /\ IdleBatch /\ IdleTrunc

Find ==
    /\ pc = "find"
    /\ project_number' = find_project_number(pj_name, mapping)
    /\ pc' = "return"
    /\ UNCHANGED <<callVars, tableVars, batchVars, filename, pj_name,
                   new_filename, truncVars>>

NextFind == Find

SpecFind == InitFind /\ [][NextFind]_vars

\* The six strategies as the specification words them, k = 1..6.
StrategyMatches(k, fragment, key) ==
    CASE k = 1 -> fragment = key
      [] k = 2 -> normalize_text(fragment) = normalize_text(key)
      [] k = 3 -> Contains(fragment, key)
      [] k = 4 -> Contains(key, fragment)
      [] k = 5 -> \/ Contains(normalize_text(fragment), normalize_text(key))
                  \/ Contains(normalize_text(key), normalize_text(fragment))
      [] k = 6 -> /\ extract_keywords(fragment) # {}
                  /\ extract_keywords(fragment) \subseteq extract_keywords(key)

\* The <<strategy, entry>> pairs that match.
Hits(fragment, m) ==
    {h \in (1..6) \X (1..Len(m)) : StrategyMatches(h[1], fragment, m[h[2]][1])}

\* The hit of the earliest strategy and, within it, of the earliest entry.
FirstHit(fragment, m) ==
    CHOOSE h \in Hits(fragment, m) :
        \A g \in Hits(fragment, m) :
            h[1] < g[1] \/ (h[1] = g[1] /\ h[2] <= g[2])

\* The result C1 describes.
Selected(fragment, m) ==
    IF Hits(fragment, m) = {} THEN UNKNOWN ELSE m[FirstHit(fragment, m)[2]][2]

\* C1 (as stated): the result is the number of the first entry of the
\* earliest matching strategy, and it is the unknown marker only when no
\* strategy matches any entry.
C1_FirstStrategyFirstEntry ==
    pc = "return" =>
        /\ project_number = Selected(pj_name, mapping)
        /\ project_number = UNKNOWN => Hits(pj_name, mapping) = {}

\* C1 (amended): the result is the number of the first entry of the earliest
\* matching strategy; it is the unknown marker only when no strategy
\* matches any entry or that entry's own number is the string "不明".
C1_FirstStrategyFirstEntryOrUnknownNumber ==
    pc = "return" =>
        /\ project_number = Selected(pj_name, mapping)
        /\ project_number = UNKNOWN =>
              \/ Hits(pj_name, mapping) = {}
              \/ mapping[FirstHit(pj_name, mapping)[2]][2] = UNKNOWN

\* C1 witness: the fragment "a-" with the mapping "-a" -> 1, "a-" -> 2: the
\* first key is a keyword-subset match only, the second an exact match, and
\* the exact match has won.
C1_Witness ==
    /\ pc = "return"
    /\ pj_name = <<97, 45>>
    /\ mapping = <<<<<<45, 97>>, <<49>>>>, <<<<97, 45>>, <<50>>>>>>
    /\ StrategyMatches(6, pj_name, mapping[1][1])
    /\ \A k \in 1..5 : ~StrategyMatches(k, pj_name, mapping[1][1])
    /\ project_number = <<50>>

(***************************************************************************)
(* SpecTrunc: truncate_filename step by step on one name and one maximum,  *)
(* and then once more on the name it returned.                             *)
(***************************************************************************)

MaxNameLen == 5
MaxMaxLength == 14

\* a, ".", U+1F600 (4 bytes in UTF-8)
TruncAlphabet == {97, 46, 128512}

InitTrunc ==
    /\ pc = "call"
    /\ input \in Strings(TruncAlphabet, MaxNameLen)
    /\ filename = input
    /\ max_length \in 0..MaxMaxLength
    /\ returned = <<>>
    /\ ext = <<>> /\ file_hash = <<>> /\ available_length = 0
    /\ truncated_base = <<>>
    /\ pj_name = <<>> /\ project_number = <<>> /\ new_filename = <<>>
    /\ IdleTable /\ IdleBatch

\* if len(filename.encode('utf-8')) <= max_length: return filename
ReturnUnchanged ==
    /\ pc = "call"
    /\ fits(filename, max_length)
    /\ returned' = Append(returned, filename)
    /\ pc' = "return"
    /\ UNCHANGED <<input, tableVars, batchVars, localVars, truncVars>>

\* The assignments between the early return and the loop.
Prepare ==
    /\ pc = "call"
    /\ ~fits(filename, max_length)
    /\ ext' = splitext(filename)[2]
    /\ file_hash' = hash_prefix(filename)
    /\ available_length' = budget(max_length, ext', file_hash')
    /\ truncated_base' = splitext(filename)[1]
    /\ pc' = "while"
    /\ UNCHANGED <<callVars, tableVars, batchVars, localVars, max_length>>

\* One turn of the while loop.
DropLast ==
    /\ pc = "while"
    /\ too_long(truncated_base, available_length)
    /\ truncated_base' = drop_last(truncated_base)
    /\ UNCHANGED <<pc, callVars, tableVars, batchVars, localVars,
                   max_length, ext, file_hash, available_length>>

\* The loop has ended: return f"{truncated_base}_{file_hash}{ext}"
ReturnTruncated ==
    /\ pc = "while"
    /\ ~too_long(truncated_base, available_length)
    /\ returned' = Append(returned, reassemble(truncated_base, file_hash, ext))
    /\ pc' = "return"
    /\ UNCHANGED <<input, tableVars, batchVars, localVars, truncVars>>

\* The returned name is given to truncate_filename again.
CallAgain ==
    /\ pc = "return"
    /\ Len(returned) = 1
    /\ filename' = returned[1]
    /\ pc' = "call"
    /\ UNCHANGED <<callVars, tableVars, batchVars, pj_name, project_number,
                   new_filename, truncVars>>

NextTrunc ==
    \/ ReturnUnchanged
    \/ Prepare
    \/ DropLast
    \/ ReturnTruncated
    \/ CallAgain

SpecTrunc == InitTrunc /\ [][NextTrunc]_vars

ByteLen(s) == Len(encode(s))

\* C2: every name truncate_filename returns is at most max_length bytes long
\* in UTF-8.
C2_ReturnedFits ==
    \A k \in 1..Len(returned) : ByteLen(returned[k]) <= max_length

\* C2 witness: an over-long name has been rebuilt as base + "_" + 8 hash
\* characters + extension, with a non-empty base and a non-empty extension.
C2_Witness ==
    /\ Len(returned) >= 1
    /\ ~fits(input, max_length)
    /\ returned[1] # input
    /\ Len(returned[1]) > 9 + Len(splitext(input)[2])
    /\ splitext(input)[2] # <<>>

\* C8: truncating a name truncate_filename has returned gives the same name.
C8_TruncateIdempotent == Len(returned) = 2 => returned[2] = returned[1]

\* C8 witness: an over-long name was truncated, and the second call has
\* returned.
C8_Witness ==
    /\ Len(returned) = 2
    /\ returned[1] # input
    /\ ByteLen(returned[1]) = max_length

\* C9: the loop of truncate_filename ends for every name and maximum: at its
\* test, either the base is within the budget (the loop is left) or the base
\* still has a character to remove (the base, which only gets shorter, gets
\* closer); in particular an empty base is within the budget.
C9_LoopEnds ==
    pc = "while" =>
        \/ ~too_long(truncated_base, available_length)
        \/ truncated_base # <<>>

(***************************************************************************)
(* Spec: process_files on one reference table and one input directory.     *)
(***************************************************************************)

MaxRows == 2
MaxFiles == 2

\* max_length of truncate_filename as process_files calls it.
DefaultMaxLength == 200

\* The data rows a reference table is made of (lists of columns):
\*   "123", "x", "Acme Renewal"      " 7 ", "", " a "
\*   "不明", "", "a-"                 "9", "a"               (two columns)
\*   "", "", "a"   (no number)       "8", "", "　"          (no name)
\*   "8", "", "a", "z"               "5", "", "(（"
RowPool ==
    { <<<<49, 50, 51>>, <<120>>,
        <<65, 99, 109, 101, 32, 82, 101, 110, 101, 119, 97, 108>>>>,
      <<<<32, 55, 32>>, <<>>, <<32, 97, 32>>>>,
      <<UNKNOWN, <<>>, <<97, 45>>>>,
      <<<<57>>, <<97>>>>,
      <<<<>>, <<>>, <<97>>>>,
      <<<<56>>, <<>>, <<12288>>>>,
      <<<<56>>, <<>>, <<97>>, <<122>>>>,
      <<<<53>>, <<>>, <<40, 65288>>>> }

AcmeFile ==   \* "AcmeRenewal_Phase1_Report.md"
    <<65, 99, 109, 101, 82, 101, 110, 101, 119, 97, 108, 95, 80, 104, 97,
      115, 101, 49, 95, 82, 101, 112, 111, 114, 116, 46, 109, 100>>

LongFile ==   \* "a_" + 63 times "明" + ".md": 194 bytes
    <<97, 95>> \o [k \in 1..63 |-> 26126] \o <<46, 109, 100>>

\* The names in the input directory: the two above, "_a.md", "a_b.pdf".
FilePool == {AcmeFile, LongFile, <<95, 97, 46, 109, 100>>,
             <<97, 95, 98, 46, 112, 100, 102>>}

EndsWith(s, suffix) ==
    Len(s) >= Len(suffix)
        /\ SubSeq(s, Len(s) - Len(suffix) + 1, Len(s)) = suffix

\* list(input_path.glob("*.md")) + list(input_path.glob("*.pdf")): distinct
\* names, in any order but with every .md name before every .pdf name.
GlobResults(pool, n) ==
    UNION {{fs \in [1..k -> pool] :
               /\ \A i, j \in 1..k : i # j => fs[i] # fs[j]
               /\ \A i, j \in 1..k :
                      i < j => ~(EndsWith(fs[i], <<46, 112, 100, 102>>)
                                   /\ EndsWith(fs[j], <<46, 109, 100>>))}
           : k \in 0..n}

Init ==
    /\ pc = "load"
    /\ csv_rows \in UNION {[1..k -> RowPool] : k \in 0..MaxRows}
    /\ n_read = 0
    /\ mapping = <<>>
    /\ md_files \in GlobResults(FilePool, MaxFiles)
    /\ n_done = 0
    /\ matched = 0 /\ unmatched = 0 /\ truncated = 0
    /\ copies = <<>> /\ summary = <<>>
    /\ IdleLocals /\ IdleCall /\ IdleTrunc

\* load_project_mapping: one turn of `for row in reader`.
LoadRow ==
    /\ pc = "load"
    /\ n_read < Len(csv_rows)
    /\ mapping' = load_row(mapping, csv_rows[n_read + 1])
    /\ n_read' = n_read + 1
    /\ UNCHANGED <<pc, callVars, csv_rows, batchVars, localVars, truncVars>>

\* load_project_mapping returns; the input files are enumerated.
Loaded ==
    /\ pc = "load"
    /\ n_read = Len(csv_rows)
    /\ pc' = "loop"
    /\ UNCHANGED <<callVars, tableVars, batchVars, localVars, truncVars>>

\* The test of the counters as it would be if it tested `not project_number`.
is_unknown_falsy(number) == number = <<>>

\* project_number == "不明"
is_unknown(number) == number = UNKNOWN

\* The loop body up to the copy: the locals and the truncated counter.
BeforeCopy ==
    /\ pc = "loop"
    /\ n_done < Len(md_files)
    /\ filename' = md_files[n_done + 1]
    /\ pj_name' = extract_pj_name(filename')
    /\ project_number' = find_project_number(pj_name', mapping)
    /\ new_filename' = truncate_filename(compose(project_number', filename'),
                                         DefaultMaxLength)
    /\ truncated' = IF new_filename' # compose(project_number', filename')
                    THEN truncated + 1 ELSE truncated

\* One turn of the loop in which shutil.copy2 succeeds.
CopyFile ==
    /\ BeforeCopy
    /\ copies' = Append(copies, [src |-> filename', dst |-> new_filename'])
    /\ IF is_unknown(project_number')
       THEN unmatched' = unmatched + 1 /\ matched' = matched
       ELSE matched' = matched + 1 /\ unmatched' = unmatched
    /\ n_done' = n_done + 1
    /\ UNCHANGED <<pc, callVars, tableVars, md_files, summary, truncVars>>

\* One turn of the loop in which shutil.copy2 raises: nothing catches the
\* exception, and process_files ends with it.
CopyRaises ==
    /\ BeforeCopy
    /\ pc' = "raised"
    /\ UNCHANGED <<callVars, tableVars, md_files, n_done, matched, unmatched,
                   copies, summary, truncVars>>

\* The loop is over: the three counts are printed.
PrintSummary ==
    /\ pc = "loop"
    /\ n_done = Len(md_files)
    /\ summary' = <<matched, unmatched, truncated>>
    /\ pc' = "done"
    /\ UNCHANGED <<callVars, tableVars, md_files, n_done, matched, unmatched,
                   truncated, copies, localVars, truncVars>>

Next ==
    \/ LoadRow
    \/ Loaded
    \/ CopyFile
    \/ CopyRaises
    \/ PrintSummary

Spec == Init /\ [][Next]_vars

\* The number the matcher gives the k-th enumerated file.
ResultOf(k) == find_project_number(extract_pj_name(md_files[k]), mapping)

\* C3: the files finished so far have been copied once each, in order, and
\* each has incremented exactly one counter: matched counts the results
\* other than the unknown marker, unmatched those equal to it; when the loop
\* has ended every enumerated file is among them.
C3_OneCopyOneCount ==
    pc \in {"loop", "done", "raised"} =>
        /\ Len(copies) = n_done
        /\ \A k \in 1..n_done : copies[k].src = md_files[k]
        /\ matched = Cardinality({k \in 1..n_done : ResultOf(k) # UNKNOWN})
        /\ unmatched = Cardinality({k \in 1..n_done : ResultOf(k) = UNKNOWN})
        /\ matched + unmatched = n_done
        /\ pc = "done" => n_done = Len(md_files)

\* C3 witness: the loop has ended after a matched and an unmatched file.
C3_Witness ==
    /\ pc = "done"
    /\ Len(md_files) = 2 /\ Len(copies) = 2
    /\ matched = 1 /\ unmatched = 1
    /\ summary = <<1, 1, truncated>>

\* C4: a copy that fails does not end the batch: the files after it are
\* still copied and the summary is still printed.
C4_BatchOutlivesCopyFailure ==
    pc = "raised" =>
        /\ summary # <<>>
        /\ \A k \in (n_done + 2)..Len(md_files) :
               \E c \in 1..Len(copies) : copies[c].src = md_files[k]

\* A row load_project_mapping does not skip, and what it reads in it.
Admitted(row) ==
    Len(row) >= 3 /\ strip(row[1]) # <<>> /\ strip(row[3]) # <<>>
NameIn(row) == strip(row[3])
NumberIn(row) == strip(row[1])

\* C5: after any number of rows, no name and no number of the mapping is
\* empty, the names are distinct, each name maps to the number of the first
\* admitted row with that name, and every admitted row's name is a name of
\* the mapping (skipped rows add nothing, later rows overwrite nothing).
C5_FirstSeenWins ==
    /\ \A i \in 1..Len(mapping) : mapping[i][1] # <<>> /\ mapping[i][2] # <<>>
    /\ \A i, j \in 1..Len(mapping) : i # j => mapping[i][1] # mapping[j][1]
    /\ \A i \in 1..Len(mapping) :
           \E r \in 1..n_read :
               /\ Admitted(csv_rows[r])
               /\ NameIn(csv_rows[r]) = mapping[i][1]
               /\ NumberIn(csv_rows[r]) = mapping[i][2]
               /\ \A q \in 1..(r - 1) :
                      ~(Admitted(csv_rows[q])
                          /\ NameIn(csv_rows[q]) = mapping[i][1])
    /\ \A r \in 1..n_read :
           Admitted(csv_rows[r]) => NameIn(csv_rows[r]) \in Names(mapping)
    /\ Len(mapping) <= n_read

\* C5 witness: two admitted rows with the name "a" (numbers 7 and 8) have
\* been read, and the mapping holds the number of the first.
C5_Witness ==
    /\ n_read = 2
    /\ Admitted(csv_rows[1]) /\ Admitted(csv_rows[2])
    /\ NameIn(csv_rows[1]) = NameIn(csv_rows[2])
    /\ NumberIn(csv_rows[1]) # NumberIn(csv_rows[2])
    /\ mapping = <<<<NameIn(csv_rows[1]), NumberIn(csv_rows[1])>>>>

\* The example of C6: the only entry is "Acme Renewal" -> "123", and the file
\* in hand is AcmeRenewal_Phase1_Report.md.
AcmeCase ==
    /\ mapping = <<<<<<65, 99, 109, 101, 32, 82, 101, 110, 101, 119, 97, 108>>,
                     <<49, 50, 51>>>>>>
    /\ filename = AcmeFile

AcmeFragment == <<65, 99, 109, 101, 82, 101, 110, 101, 119, 97, 108>>

\* C6 (as stated): the fragment is "AcmeRenewal", the exact match fails, a
\* normalized or substring strategy matches, the result is "123" and the
\* output name is 【123】AcmeRenewal_Phase1_Report.md.
C6_AcmeGets123 ==
    AcmeCase =>
        /\ pj_name = AcmeFragment
        /\ ~StrategyMatches(1, pj_name, mapping[1][1])
        /\ \E k \in {2, 3, 4, 5} : StrategyMatches(k, pj_name, mapping[1][1])
        /\ project_number = <<49, 50, 51>>
        /\ new_filename = <<12304, 49, 50, 51, 12305>> \o AcmeFile

\* C6 (amended): the fragment is "AcmeRenewal", none of the six strategies
\* matches it against "Acme Renewal" (normalization keeps the space), the
\* result is the unknown marker and the output name is
\* 【不明】AcmeRenewal_Phase1_Report.md.
C6_AcmeGetsUnknown ==
    AcmeCase =>
        /\ pj_name = AcmeFragment
        /\ \A k \in 1..6 : ~StrategyMatches(k, pj_name, mapping[1][1])
        /\ project_number = <<19981, 26126>>
        /\ new_filename = <<12304, 19981, 26126, 12305>> \o AcmeFile

\* C6 witness: the example file has been copied under the example mapping.
C6_Witness ==
    /\ AcmeCase
    /\ n_done >= 1
    /\ copies[n_done].src = AcmeFile
    /\ copies[n_done].dst = new_filename

\* A turn of the loop that finishes a file whose name begins with "_",
\* under a mapping that is not empty.
UnderscoreTurn ==
    /\ pc = "loop"
    /\ n_done' = n_done + 1
    /\ mapping # <<>>
    /\ Head(filename') = 95

\* C10 (as stated): such a file has the empty fragment, its result is not
\* the unknown marker but the number of a mapping entry, and it is counted
\* as matched.
C10_UnderscoreFileMatched ==
    [][UnderscoreTurn =>
          /\ pj_name' = <<>>
          /\ project_number' # UNKNOWN
          /\ \E i \in 1..Len(mapping) : project_number' = mapping[i][2]
          /\ matched' = matched + 1]_vars

\* The entry the empty fragment selects: the first whose name normalizes to
\* the empty string (normalized exact), else the first (forward substring).
EmptyFragmentEntry(m) ==
    LET blank == {i \in 1..Len(m) : normalize_text(m[i][1]) = <<>>}
    IN  IF blank # {} THEN Min(blank) ELSE 1

\* C10 (amended): such a file has the empty fragment and its result is the
\* number of the entry the empty fragment selects; it is counted as matched
\* unless that number is itself the string "不明", and as unmatched then.
C10_UnderscoreFileGetsEntry ==
    [][UnderscoreTurn =>
          /\ pj_name' = <<>>
          /\ project_number' = mapping[EmptyFragmentEntry(mapping)][2]
          /\ IF project_number' # UNKNOWN
             THEN matched' = matched + 1 /\ unmatched' = unmatched
             ELSE unmatched' = unmatched + 1 /\ matched' = matched]_vars

\* C10 witness: "_a.md" has been finished under a mapping whose second
\* entry, the one selected, has a name made of brackets only.
C10_Witness ==
    /\ n_done >= 1
    /\ Head(filename) = 95
    /\ pj_name = <<>>
    /\ Len(mapping) = 2
    /\ EmptyFragmentEntry(mapping) = 2
    /\ project_number = mapping[2][2]
    /\ matched >= 1

====
